---- MODULE Spec2Model ----
(***************************************************************************)
(* Model of single_responsability/refactor_code.py: a payment flow split   *)
(* into CustomerValidator, PaymentDataValidator, Notifier,                 *)
(* TransactionLogger, StripePaymentProcessor and the orchestrating         *)
(* PaymentService.                                                         *)
(*                                                                         *)
(* Two specifications share the state:                                     *)
(*   Spec      calls of PaymentService.process_transaction, one action per *)
(*             step of the method (the position is pc);                    *)
(*   SpecComp  direct calls of the four leaf components.                   *)
(***************************************************************************)
EXTENDS Integers, Sequences, FiniteSets, TLC

\* ------------------------------------------------------------------ bounds
\* Number of PaymentService.process_transaction calls explored by Spec.
MaxCalls == 2
\* Number of direct component calls explored by SpecComp.
MaxCompCalls == 2

\* ------------------------------------------------------------------ values
\* A Python value looked up in a dict: the key is absent (dict.get gives
\* None), or it holds a str, or it holds an int.
Absent == [k |-> "absent", s |-> "", i |-> 0]
Str(x) == [k |-> "str", s |-> x, i |-> 0]
Num(n) == [k |-> "int", s |-> "", i |-> n]

\* Python truthiness, as used by "if not d.get(key)".
Truthy(v) ==
    CASE v.k = "absent" -> FALSE
      [] v.k = "str"    -> v.s # ""
      [] v.k = "int"    -> v.i # 0

\* Formatting of a value inside an f-string: str(v).
Fmt(v) == IF v.k = "int" THEN ToString(v.i) ELSE v.s

\* contact_info: absent, a dict (keys is its key set), or a list (keys is
\* its element set).  email / phone are the dict's values for those keys.
NoContact == [k |-> "absent", keys |-> {}, email |-> "", phone |-> ""]
ContactDict(ks, e, p) == [k |-> "dict", keys |-> ks, email |-> e, phone |-> p]
ContactList(ks) == [k |-> "list", keys |-> ks, email |-> "", phone |-> ""]

\* Truthiness of customer_data.get("contact_info"): None, {} and [] are falsy.
ContactTruthy(ci) == ci.k # "absent" /\ ci.keys # {}

\* A Charge of the provider and the value of "no charge yet".
NoCharge == [id |-> 0, status |-> "", amount |-> 0]
Charge(n, st, a) == [id |-> n, status |-> st, amount |-> a]

\* Outcome of a call: nothing yet, normal return of None, normal return of a
\* Charge, or an exception of class err with message msg.
Pending == [k |-> "none", err |-> "", msg |-> "", ch |-> NoCharge]
Ok == [k |-> "ok", err |-> "", msg |-> "", ch |-> NoCharge]
Returned(c) == [k |-> "return", err |-> "", msg |-> "", ch |-> c]
Raise(e, m) == [k |-> "raise", err |-> e, msg |-> m, ch |-> NoCharge]

\* --------------------------------------------------------------- components
\* CustomerValidator.validate: the name check first, then contact_info.
\* Faulty variant: the contact_info check is left out.
CustomerValidator_validate_skip_contact(c) ==
    IF ~Truthy(c.name)
      THEN Raise("ValueError", "Invalid customer data: missing name")
      ELSE Ok

CustomerValidator_validate(c) ==
    IF ~Truthy(c.name)
      THEN Raise("ValueError", "Invalid customer data: missing name")
      ELSE IF ~ContactTruthy(c.contact_info)
        THEN Raise("ValueError", "Invalid customer data: missing contact info")
        ELSE Ok

\* PaymentDataValidator.validate: only the source is looked at.
\* Faulty variant: a missing or zero amount is refused as well.
PaymentDataValidator_validate_checks_amount(p) ==
    IF ~Truthy(p.source) \/ ~Truthy(p.amount)
      THEN Raise("ValueError", "Invalid payment data")
      ELSE Ok

PaymentDataValidator_validate(p) ==
    IF ~Truthy(p.source)
      THEN Raise("ValueError", "Invalid payment data")
      ELSE Ok

\* A dispatched confirmation.
Email(to) == [channel |-> "email", to |-> to]
Sms(to) == [channel |-> "sms", to |-> to]

\* Notifier.send_confirmation: res is the outcome, out the messages
\* dispatched.  customer_data["contact_info"] raises KeyError when the key is
\* absent; "x in contact_info" tests keys of a dict and elements of a list;
\* contact_info["email"] on a list raises TypeError before anything is sent.
\* Faulty variant: "if" in place of "elif", so both channels may be used.
Notifier_send_confirmation_both(c) ==
    LET ci == c.contact_info IN
    IF ci.k = "absent"
      THEN [res |-> Raise("KeyError", "contact_info"), out |-> <<>>]
    ELSE IF ci.k = "list" /\ ci.keys \cap {"email", "phone"} # {}
      THEN [res |-> Raise("TypeError", "list indices"), out |-> <<>>]
    ELSE [res |-> Ok,
          out |-> (IF "email" \in ci.keys THEN <<Email(ci.email)>> ELSE <<>>)
                  \o (IF "phone" \in ci.keys THEN <<Sms(ci.phone)>> ELSE <<>>)]

Notifier_send_confirmation(c) ==
    LET ci == c.contact_info IN
    IF ci.k = "absent"
      THEN [res |-> Raise("KeyError", "contact_info"), out |-> <<>>]
    ELSE IF "email" \in ci.keys
      THEN IF ci.k = "dict"
             THEN [res |-> Ok, out |-> <<Email(ci.email)>>]
             ELSE [res |-> Raise("TypeError", "list indices"), out |-> <<>>]
    ELSE IF "phone" \in ci.keys
      THEN IF ci.k = "dict"
             THEN [res |-> Ok, out |-> <<Sms(ci.phone)>>]
             ELSE [res |-> Raise("TypeError", "list indices"), out |-> <<>>]
    ELSE [res |-> Ok, out |-> <<>>]

\* TransactionLogger.log with the file opened: the two f-strings, in order.
\* customer_data['name'] and payment_data['amount'] raise KeyError when
\* absent; the first line is formatted before anything is written.
\* Faulty variant: the status line is written first.
TransactionLogger_log_swapped(c, p, ch) ==
    IF c.name.k = "absent" \/ p.amount.k = "absent"
      THEN [res |-> Raise("KeyError", "name"), lines |-> <<>>]
      ELSE [res |-> Ok,
            lines |-> << "Payment status: " \o ch.status,
                         Fmt(c.name) \o " paid " \o Fmt(p.amount) >>]

\* Faulty variant: the amount written is charge['amount'].
TransactionLogger_log_charge_amount(c, p, ch) ==
    IF c.name.k = "absent" \/ p.amount.k = "absent"
      THEN [res |-> Raise("KeyError", "name"), lines |-> <<>>]
      ELSE [res |-> Ok,
            lines |-> << Fmt(c.name) \o " paid " \o ToString(ch.amount),
                         "Payment status: " \o ch.status >>]

TransactionLogger_log(c, p, ch) ==
    IF c.name.k = "absent"
      THEN [res |-> Raise("KeyError", "name"), lines |-> <<>>]
    ELSE IF p.amount.k = "absent"
      THEN [res |-> Raise("KeyError", "amount"), lines |-> <<>>]
    ELSE [res |-> Ok,
          lines |-> << Fmt(c.name) \o " paid " \o Fmt(p.amount),
                       "Payment status: " \o ch.status >>]

\* ------------------------------------------------------------------ provider
\* What the external provider can answer to a charge creation; the provider
\* is opaque, so every answer is possible for every request.
ProviderErrors == {"card_declined", "fraud_block"}
ChargeStatuses == {"succeeded", "pending"}
ChargeAmounts == {500, 700}

\* stripe.Charge.create(amount, currency, source, description): a StripeError
\* carrying the provider's detail, or a new Charge (nid is the id it gets).
Stripe_Charge_create(amount, currency, source, description, nid) ==
    {Raise("StripeError", d) : d \in ProviderErrors}
    \cup {Returned(Charge(nid, st, a)) : st \in ChargeStatuses, a \in ChargeAmounts}

\* StripePaymentProcessor.process_transaction: the set of possible outcomes.
\* res is what the method returns or raises, replies the provider's answers
\* to its charge-creation calls, in order.
\* The arguments are evaluated first, in order: payment_data["amount"],
\* payment_data["source"], "Charge for " + customer_data["name"].
\* Faulty variant: a StripeError is answered by one more charge creation.
StripePaymentProcessor_process_transaction_retry(c, p, nid) ==
    IF p.amount.k = "absent"
      THEN {[res |-> Raise("KeyError", "amount"), replies |-> <<>>]}
    ELSE IF p.source.k = "absent"
      THEN {[res |-> Raise("KeyError", "source"), replies |-> <<>>]}
    ELSE IF c.name.k = "absent"
      THEN {[res |-> Raise("KeyError", "name"), replies |-> <<>>]}
    ELSE IF c.name.k # "str"
      THEN {[res |-> Raise("TypeError", "can only concatenate str"),
             replies |-> <<>>]}
    ELSE LET first == Stripe_Charge_create(p.amount, "usd", p.source,
                                           "Charge for " \o c.name.s, nid)
         IN {[res |-> r, replies |-> <<r>>] : r \in {x \in first : x.k = "return"}}
            \cup {[res |-> r2, replies |-> <<r1, r2>>] :
                     r1 \in {x \in first : x.k = "raise"}, r2 \in first}

StripePaymentProcessor_process_transaction(c, p, nid) ==
    IF p.amount.k = "absent"
      THEN {[res |-> Raise("KeyError", "amount"), replies |-> <<>>]}
    ELSE IF p.source.k = "absent"
      THEN {[res |-> Raise("KeyError", "source"), replies |-> <<>>]}
    ELSE IF c.name.k = "absent"
      THEN {[res |-> Raise("KeyError", "name"), replies |-> <<>>]}
    ELSE IF c.name.k # "str"
      THEN {[res |-> Raise("TypeError", "can only concatenate str"),
             replies |-> <<>>]}
    ELSE {[res |-> r, replies |-> <<r>>] :
             r \in Stripe_Charge_create(p.amount, "usd", p.source,
                                        "Charge for " \o c.name.s, nid)}

\* -------------------------------------------------------------------- inputs
\* customer_data and payment_data given to PaymentService.process_transaction.
ServiceNames == {Absent, Str("John Doe"), Str("Platzi Python"), Num(42)}
ServiceContacts ==
    { ContactDict({}, "", ""),
      ContactDict({"email"}, "e@mail.com", ""),
      ContactDict({"phone"}, "", "1234567890"),
      ContactDict({"fax"}, "", ""),
      ContactList({"email"}) }
ServiceCustomers ==
    {[name |-> n, contact_info |-> ci] : n \in ServiceNames, ci \in ServiceContacts}
ServicePayments ==
    {[source |-> s, amount |-> a] :
        s \in {Absent, Str("tok_mastercard"), Str("tok_radarBlock")},
        a \in {Absent, Num(500)}}

\* Arguments of the direct component calls.
CompNames == {Absent, Str(""), Str("John Doe"), Str("Platzi Python")}
CompContacts ==
    { NoContact,
      ContactDict({}, "", ""),
      ContactDict({"email"}, "e@mail.com", ""),
      ContactDict({"email"}, "", ""),
      ContactDict({"phone"}, "", "1234567890"),
      ContactDict({"email", "phone"}, "e@mail.com", "1234567890"),
      ContactDict({"fax"}, "", ""),
      ContactList({}),
      ContactList({"email"}),
      ContactList({"phone"}) }
CompCustomers ==
    {[name |-> n, contact_info |-> ci] : n \in CompNames, ci \in CompContacts}
CompAmounts == {Absent, Num(0), Num(-5), Num(500), Num(700), Str("12.50")}
CompPayments ==
    {[source |-> s, amount |-> a] :
        s \in {Absent, Str(""), Str("tok_mastercard")}, a \in CompAmounts}
LogCustomers ==
    {[name |-> n, contact_info |-> ContactDict({"email"}, "e@mail.com", "")] :
        n \in CompNames}
LogPayments == {[source |-> Str("tok_mastercard"), amount |-> a] : a \in CompAmounts}
\* Every Charge given to the logger has a status, as the provider's have.
LogCharges == {Charge(1, st, a) : st \in ChargeStatuses, a \in ChargeAmounts}

NoCustomer == [name |-> Absent, contact_info |-> NoContact]
NoPayment == [source |-> Absent, amount |-> Absent]

\* --------------------------------------------------------------------- state
VARIABLES
    pc,                \* position inside PaymentService.process_transaction
    customer_data,     \* arguments of the call in progress
    payment_data,
    charge,            \* the local variable charge (NoCharge while unset)
    result,            \* what the call returned or raised (Pending while running)
    steps,             \* the steps this call has started, in order
    log_file,          \* the lines of transactions.log
    outbox,            \* every confirmation dispatched so far
    provider_charges,  \* every Charge created at the provider so far
    provider_replies,  \* the provider's answers during this call
    calls,             \* number of calls made so far
    log0,              \* log_file and outbox when this call started
    outbox0,
    log_calls          \* arguments of every TransactionLogger.log call that returned

vars == << pc, customer_data, payment_data, charge, result, steps, log_file,
           outbox, provider_charges, provider_replies, calls, log0, outbox0,
           log_calls >>

Order == << "validate_customer", "validate_payment", "charge", "notify", "log" >>

Init ==
    /\ pc = "idle"
    /\ customer_data = NoCustomer
    /\ payment_data = NoPayment
    /\ charge = NoCharge
    /\ result = Pending
    /\ steps = <<>>
    /\ log_file = <<>>
    /\ outbox = <<>>
    /\ provider_charges = <<>>
    /\ provider_replies = <<>>
    /\ calls = 0
    /\ log0 = <<>>
    /\ outbox0 = <<>>
    /\ log_calls = <<>>

\* ------------------------------------------- PaymentService.process_transaction
\* The Charges among the provider's answers.
Created(replies) ==
    LET F[i \in 0..Len(replies)] ==
            IF i = 0 THEN <<>>
            ELSE IF replies[i].k = "return" THEN Append(F[i-1], replies[i].ch)
            ELSE F[i-1]
    IN F[Len(replies)]

\* The caller invokes the method with arguments c and p.
Call(c, p) ==
    /\ pc \in {"idle", "done"}
    /\ calls < MaxCalls
    /\ pc' = "validate_customer"
    /\ customer_data' = c
    /\ payment_data' = p
    /\ charge' = NoCharge
    /\ result' = Pending
    /\ steps' = <<>>
    /\ provider_replies' = <<>>
    /\ calls' = calls + 1
    /\ log0' = log_file
    /\ outbox0' = outbox
    /\ UNCHANGED << log_file, outbox, provider_charges, log_calls >>

\* self.customer_validator.validate(customer_data); a ValueError is re-raised.
\* Faulty variant: the validation error is printed but not raised.
ValidateCustomerStep_print_only ==
    /\ pc = "validate_customer"
    /\ steps' = Append(steps, "validate_customer")
    /\ pc' = "validate_payment"
    /\ UNCHANGED << customer_data, payment_data, charge, result, log_file, outbox,
                    provider_charges, provider_replies, calls, log0, outbox0, log_calls >>

ValidateCustomerStep ==
    /\ pc = "validate_customer"
    /\ steps' = Append(steps, "validate_customer")
    /\ LET r == CustomerValidator_validate(customer_data) IN
         IF r.k = "raise"
           THEN result' = r /\ pc' = "done"
           ELSE result' = result /\ pc' = "validate_payment"
    /\ UNCHANGED << customer_data, payment_data, charge, log_file, outbox,
                    provider_charges, provider_replies, calls, log0, outbox0, log_calls >>

\* self.payment_validator.validate(payment_data); a ValueError is re-raised.
ValidatePaymentStep ==
    /\ pc = "validate_payment"
    /\ steps' = Append(steps, "validate_payment")
    /\ LET r == PaymentDataValidator_validate(payment_data) IN
         IF r.k = "raise"
           THEN result' = r /\ pc' = "done"
           ELSE result' = result /\ pc' = "charge"
    /\ UNCHANGED << customer_data, payment_data, charge, log_file, outbox,
                    provider_charges, provider_replies, calls, log0, outbox0, log_calls >>

\* charge = self.payment_processor.process_transaction(customer_data,
\* payment_data): a StripeError is re-raised, any other exception is not
\* caught and leaves the method as well.
\* Faulty variant: a failed charge is written to the log before re-raising.
ChargeStep_logs_failure ==
    /\ pc = "charge"
    /\ steps' = Append(steps, "charge")
    /\ \E o \in StripePaymentProcessor_process_transaction(
                    customer_data, payment_data, Len(provider_charges) + 1) :
         /\ provider_replies' = provider_replies \o o.replies
         /\ provider_charges' = provider_charges \o Created(o.replies)
         /\ IF o.res.k = "raise"
              THEN /\ result' = o.res
                   /\ charge' = charge
                   /\ pc' = "done"
                   /\ log_file' = log_file \o
                        << Fmt(customer_data.name) \o " paid " \o Fmt(payment_data.amount),
                           "Payment status: failed" >>
              ELSE /\ result' = result
                   /\ charge' = o.res.ch
                   /\ pc' = "notify"
                   /\ log_file' = log_file
    /\ UNCHANGED << customer_data, payment_data, outbox, calls, log0, outbox0, log_calls >>

ChargeStep ==
    /\ pc = "charge"
    /\ steps' = Append(steps, "charge")
    /\ \E o \in StripePaymentProcessor_process_transaction(
                    customer_data, payment_data, Len(provider_charges) + 1) :
         /\ provider_replies' = provider_replies \o o.replies
         /\ provider_charges' = provider_charges \o Created(o.replies)
         /\ IF o.res.k = "raise"
              THEN result' = o.res /\ charge' = charge /\ pc' = "done"
              ELSE result' = result /\ charge' = o.res.ch /\ pc' = "notify"
    /\ UNCHANGED << customer_data, payment_data, log_file, outbox, calls, log0,
                    outbox0, log_calls >>

\* self.notifier.send_confirmation(customer_data): nothing it raises is a
\* StripeError, so an exception leaves the method.
\* Faulty variant: an exception of the notifier is swallowed.
NotifyStep_best_effort ==
    /\ pc = "notify"
    /\ steps' = Append(steps, "notify")
    /\ LET n == Notifier_send_confirmation(customer_data) IN
         /\ outbox' = outbox \o n.out
         /\ result' = result
         /\ pc' = "log"
    /\ UNCHANGED << customer_data, payment_data, charge, log_file, provider_charges,
                    provider_replies, calls, log0, outbox0, log_calls >>

NotifyStep ==
    /\ pc = "notify"
    /\ steps' = Append(steps, "notify")
    /\ LET n == Notifier_send_confirmation(customer_data) IN
         /\ outbox' = outbox \o n.out
         /\ IF n.res.k = "raise"
              THEN result' = n.res /\ pc' = "done"
              ELSE result' = result /\ pc' = "log"
    /\ UNCHANGED << customer_data, payment_data, charge, log_file, provider_charges,
                    provider_replies, calls, log0, outbox0, log_calls >>

\* TransactionLogger.log as a whole: open("transactions.log", "a") raises
\* OSError when the storage is unavailable (storage_ok is the environment's
\* choice); otherwise the lines are appended.
LogCall(c, p, ch, storage_ok) ==
    IF ~storage_ok
      THEN [res |-> Raise("OSError", "transactions.log"), lines |-> <<>>]
      ELSE TransactionLogger_log(c, p, ch)

\* The record of a TransactionLogger.log call in log_calls: its arguments when
\* it returned, nothing when it raised.
Logged(c, p, ch, res) ==
    IF res.k = "raise" THEN <<>>
    ELSE << [name |-> c.name, amount |-> p.amount, status |-> ch.status] >>

\* self.logger.log(customer_data, payment_data, charge): an exception leaves
\* the method.
LogStep ==
    /\ pc = "log"
    /\ steps' = Append(steps, "log")
    /\ \E storage_ok \in BOOLEAN :
         LET l == LogCall(customer_data, payment_data, charge, storage_ok) IN
           /\ log_file' = log_file \o l.lines
           /\ log_calls' = log_calls \o Logged(customer_data, payment_data, charge, l.res)
           /\ IF l.res.k = "raise"
                THEN result' = l.res /\ pc' = "done"
                ELSE result' = result /\ pc' = "return"
    /\ UNCHANGED << customer_data, payment_data, charge, outbox, provider_charges,
                    provider_replies, calls, log0, outbox0 >>

\* return charge
\* Faulty variant: the value returned is rebuilt from payment_data.
ReturnStep_rebuilt ==
    /\ pc = "return"
    /\ result' = Returned(Charge(charge.id, "succeeded", payment_data.amount.i))
    /\ pc' = "done"
    /\ UNCHANGED << customer_data, payment_data, charge, steps, log_file, outbox,
                    provider_charges, provider_replies, calls, log0, outbox0, log_calls >>

ReturnStep ==
    /\ pc = "return"
    /\ result' = Returned(charge)
    /\ pc' = "done"
    /\ UNCHANGED << customer_data, payment_data, charge, steps, log_file, outbox,
                    provider_charges, provider_replies, calls, log0, outbox0, log_calls >>

Next ==
    \/ \E c \in ServiceCustomers, p \in ServicePayments : Call(c, p)
    \/ ValidateCustomerStep
    \/ ValidatePaymentStep
    \/ ChargeStep
    \/ NotifyStep
    \/ LogStep
    \/ ReturnStep

Spec == Init /\ [][Next]_vars

\* ------------------------------------------------------ direct component calls
\* A component can be called whenever no service call is in progress.
CanCall == pc \in {"idle", "done"} /\ calls < MaxCompCalls

\* The state a direct call of one component leaves: the arguments, the
\* outcome, and the component's effect on the log and on the outbox.
CompCall(name, c, p, ch, res, lines, out) ==
    /\ pc' = "done"
    /\ steps' = << name >>
    /\ customer_data' = c
    /\ payment_data' = p
    /\ charge' = ch
    /\ result' = res
    /\ log0' = log_file
    /\ outbox0' = outbox
    /\ log_file' = log_file \o lines
    /\ outbox' = outbox \o out
    /\ calls' = calls + 1
    /\ log_calls' = log_calls \o (IF name = "log" THEN Logged(c, p, ch, res) ELSE <<>>)
    /\ UNCHANGED << provider_charges, provider_replies >>

\* CustomerValidator().validate(c)
CompValidateCustomer(c) ==
    /\ CanCall
    /\ CompCall("validate_customer", c, NoPayment, NoCharge,
                CustomerValidator_validate(c), <<>>, <<>>)

\* PaymentDataValidator().validate(p)
CompValidatePayment(p) ==
    /\ CanCall
    /\ CompCall("validate_payment", NoCustomer, p, NoCharge,
                PaymentDataValidator_validate(p), <<>>, <<>>)

\* Notifier().send_confirmation(c)
CompNotify(c) ==
    /\ CanCall
    /\ LET n == Notifier_send_confirmation(c) IN
         CompCall("notify", c, NoPayment, NoCharge, n.res, <<>>, n.out)

\* TransactionLogger().log(c, p, ch)
CompLog(c, p, ch) ==
    /\ CanCall
    /\ \E storage_ok \in BOOLEAN :
         LET l == LogCall(c, p, ch, storage_ok) IN
         CompCall("log", c, p, ch, l.res, l.lines, <<>>)

NextComp ==
    \/ \E c \in CompCustomers : CompValidateCustomer(c)
    \/ \E p \in CompPayments : CompValidatePayment(p)
    \/ \E c \in CompCustomers : CompNotify(c)
    \/ \E c \in LogCustomers, p \in LogPayments, ch \in LogCharges : CompLog(c, p, ch)

SpecComp == Init /\ [][NextComp]_vars

\* -------------------------------------------------------------------- helpers
IsPrefix(a, b) == Len(a) <= Len(b) /\ SubSeq(b, 1, Len(a)) = a

\* What this call appended to the log and dispatched.
NewLines == SubSeq(log_file, Len(log0) + 1, Len(log_file))
NewMessages == SubSeq(outbox, Len(outbox0) + 1, Len(outbox))

\* The provider returned a Charge during this call.
ProviderReturnedCharge ==
    \E i \in 1..Len(provider_replies) : provider_replies[i].k = "return"

\* The step of the current call that raised.
FailedIn(step) ==
    /\ pc = "done"
    /\ result.k = "raise"
    /\ steps # <<>>
    /\ steps[Len(steps)] = step

\* The two lines of a log record.
PaidLine(n, a) == n \o " paid " \o a
StatusLine(st) == "Payment status: " \o st

\* ------------------------------------------------------------------------ C1
\* C1: a call appends to the log or dispatches a notification only if the
\* provider returned a Charge in that call; a call that fails in customer
\* validation, payment validation or the charge step leaves the log and the
\* outbox as they were; over any sequence of calls there are never more log
\* records or notifications than Charges created.
C1_LogOnlyAfterCharge ==
    /\ IsPrefix(log0, log_file) /\ IsPrefix(outbox0, outbox)
    /\ (NewLines # <<>> \/ NewMessages # <<>>) =>
           /\ ProviderReturnedCharge
           /\ charge = provider_replies[Len(provider_replies)].ch
    /\ (FailedIn("validate_customer") \/ FailedIn("validate_payment")
            \/ FailedIn("charge")) =>
           NewLines = <<>> /\ NewMessages = <<>>
    /\ Len(log_file) <= 2 * Len(provider_charges)
    /\ Len(outbox) <= Len(provider_charges)

\* A charge rejected by the provider in a call made after a logged one.
C1_Witness ==
    /\ FailedIn("charge")
    /\ result.err = "StripeError"
    /\ log0 # <<>> /\ outbox0 # <<>>
    /\ log_file = log0 /\ outbox = outbox0

\* ------------------------------------------------------------------------ C2
\* C2 (state part): the steps started are a prefix of validate customer,
\* validate payment, charge, notify, log; a step has started only if every
\* earlier one completed without error; after an error the call is over;
\* with both inputs invalid the error is the customer validator's missing-name
\* error and the provider was not called.
C2_State ==
    /\ \E n \in 0..Len(Order) : steps = SubSeq(Order, 1, n)
    /\ Len(steps) >= 2 => CustomerValidator_validate(customer_data) = Ok
    /\ Len(steps) >= 3 => PaymentDataValidator_validate(payment_data) = Ok
    /\ Len(steps) >= 4 => ProviderReturnedCharge /\ charge # NoCharge
    /\ Len(steps) >= 5 => Notifier_send_confirmation(customer_data).res = Ok
    /\ pc = "return" => steps = Order /\ Len(NewLines) = 2
    /\ result.k = "raise" => pc = "done"
    /\ (pc = "done" /\ CustomerValidator_validate(customer_data).k = "raise"
            /\ PaymentDataValidator_validate(payment_data).k = "raise") =>
           /\ result = CustomerValidator_validate(customer_data)
           /\ steps = << "validate_customer" >>
           /\ provider_replies = <<>>

\* C2 (step part): within a call the only change to steps is starting the
\* next step of the order, and none starts once an error was raised.
C2_Step ==
    calls' = calls =>
        /\ \/ steps' = steps
           \/ /\ Len(steps) < Len(Order)
              /\ steps' = Append(steps, Order[Len(steps) + 1])
        /\ result.k = "raise" => steps' = steps

\* C2: PaymentService.process_transaction runs validate customer, validate
\* payment, charge, notify, log in that order, never going back, and stops
\* at the first step that fails.
C2_FixedOrder == [](C2_State) /\ [][C2_Step]_vars

\* Both inputs invalid: the call ended in the customer validator.
C2_Witness ==
    /\ pc = "done"
    /\ customer_data.name = Absent
    /\ payment_data.source = Absent
    /\ result = Raise("ValueError", "Invalid customer data: missing name")
    /\ steps = << "validate_customer" >>

\* ------------------------------------------------------------------------ C3
NameMissing(c) == c.name = Absent \/ c.name = Str("")
ContactMissing(c) == c.contact_info.k = "absent" \/ c.contact_info.keys = {}

\* C3: CustomerValidator.validate raises the missing-name ValueError when the
\* name is absent or empty (also when contact_info is missing too), the
\* missing-contact-info ValueError when only contact_info is absent or empty,
\* and returns normally otherwise; it has no other effect.
C3_CustomerValidator ==
    (pc = "done" /\ steps = << "validate_customer" >>) =>
        /\ NameMissing(customer_data) =>
               result = Raise("ValueError", "Invalid customer data: missing name")
        /\ (~NameMissing(customer_data) /\ ContactMissing(customer_data)) =>
               result = Raise("ValueError", "Invalid customer data: missing contact info")
        /\ (~NameMissing(customer_data) /\ ~ContactMissing(customer_data)) =>
               result = Ok
        /\ log_file = log0 /\ outbox = outbox0

\* A customer with a name and an empty contact_info was refused.
C3_Witness ==
    /\ pc = "done" /\ steps = << "validate_customer" >>
    /\ customer_data.name = Str("John Doe")
    /\ customer_data.contact_info = ContactDict({}, "", "")
    /\ result.err = "ValueError"

\* ------------------------------------------------------------------------ C4
\* C4: PaymentDataValidator.validate raises ValueError when the source is
\* absent or empty and returns normally otherwise, whatever the amount is.
C4_PaymentDataValidator ==
    (pc = "done" /\ steps = << "validate_payment" >>) =>
        /\ (payment_data.source = Absent \/ payment_data.source = Str("")) =>
               result = Raise("ValueError", "Invalid payment data")
        /\ (payment_data.source # Absent /\ payment_data.source # Str("")) =>
               result = Ok
        /\ log_file = log0 /\ outbox = outbox0

\* A payment with a source and a zero amount was accepted.
C4_Witness ==
    /\ pc = "done" /\ steps = << "validate_payment" >>
    /\ payment_data.source = Str("tok_mastercard")
    /\ payment_data.amount = Num(0)
    /\ result = Ok

\* ------------------------------------------------------------------------ C5
\* C5: Notifier.send_confirmation dispatches at most one message per call;
\* for a contact_info mapping: one email and no SMS when it has an email
\* (with or without a phone), one SMS and no email when it has only a phone,
\* nothing and no error when it has neither.
C5_Notifier ==
    (pc = "done" /\ steps = << "notify" >>) =>
        LET ci == customer_data.contact_info IN
        /\ IsPrefix(outbox0, outbox)
        /\ Len(NewMessages) <= 1
        /\ log_file = log0
        /\ (ci.k = "dict" /\ "email" \in ci.keys) =>
               result = Ok /\ NewMessages = << Email(ci.email) >>
        /\ (ci.k = "dict" /\ "email" \notin ci.keys /\ "phone" \in ci.keys) =>
               result = Ok /\ NewMessages = << Sms(ci.phone) >>
        /\ (ci.k = "dict" /\ "email" \notin ci.keys /\ "phone" \notin ci.keys) =>
               result = Ok /\ NewMessages = <<>>

\* Both contacts given: exactly one email went out.
C5_Witness ==
    /\ pc = "done" /\ steps = << "notify" >>
    /\ customer_data.contact_info.k = "dict"
    /\ customer_data.contact_info.keys = {"email", "phone"}
    /\ NewMessages = << Email("e@mail.com") >>

\* ------------------------------------------------------------------------ C6
\* The lines that the log calls recorded in h produce, in call order.
RECURSIVE RecordsOf(_)
RecordsOf(h) ==
    IF h = <<>> THEN <<>>
    ELSE << PaidLine(Fmt(Head(h).name), Fmt(Head(h).amount)),
            StatusLine(Head(h).status) >> \o RecordsOf(Tail(h))

\* C6: a TransactionLogger.log call with name n, amount a and status s
\* appends "n paid a" and then "Payment status: s" after the lines already
\* there, which stay as they were; a call that raises appends nothing; after
\* k calls that returned the log is the k two-line records in call order.
C6_LogAppendsTwoLines ==
    /\ log_file = RecordsOf(log_calls)
    /\ Len(log_file) = 2 * Len(log_calls)
    /\ (pc = "done" /\ steps = << "log" >>) =>
           /\ IsPrefix(log0, log_file)
           /\ outbox = outbox0
           /\ result.k = "raise" => NewLines = <<>>
           /\ result = Ok =>
                  NewLines = << PaidLine(Fmt(customer_data.name),
                                         Fmt(payment_data.amount)),
                                StatusLine(charge.status) >>

\* Two calls returned: four lines, the second record after the first.
C6_Witness ==
    /\ pc = "done" /\ steps = << "log" >>
    /\ Len(log_calls) = 2
    /\ log_file = << "John Doe paid 500", "Payment status: succeeded",
                     "Platzi Python paid -5", "Payment status: pending" >>

\* ------------------------------------------------------------------------ C7
\* The charge step of the current call is over.
ChargeStepDone == Len(steps) >= 3

\* The processor can build its request: payment_data has an amount and a
\* source, and the customer name is a str.
RequestBuildable ==
    /\ payment_data.amount # Absent
    /\ payment_data.source # Absent
    /\ customer_data.name.k = "str"

\* What C7 says of every call but its count of provider calls: never more
\* than one charge creation, none before both validations have passed, and a
\* provider error is what the call raises, unchanged.
C7_Common ==
    /\ Len(provider_replies) <= 1
    /\ ~ChargeStepDone => provider_replies = <<>>
    /\ (pc = "done" /\ Len(steps) <= 2) => provider_replies = <<>>
    /\ (provider_replies # <<>> /\ provider_replies[1].k = "raise") =>
           /\ FailedIn("charge")
           /\ result = provider_replies[1]
           /\ result.err = "StripeError"

\* C7 as claimed: in addition, exactly one charge creation whenever both
\* validations passed.
C7_ExactlyOneCallWhenValid ==
    /\ C7_Common
    /\ ChargeStepDone => Len(provider_replies) = 1

\* C7 as amended: exactly one charge creation when both validations passed
\* and the request can be built; none, and a KeyError or TypeError raised by
\* the charge step, when it cannot.
C7_NoRetry ==
    /\ C7_Common
    /\ (ChargeStepDone /\ RequestBuildable) => Len(provider_replies) = 1
    /\ (ChargeStepDone /\ ~RequestBuildable) =>
           /\ provider_replies = <<>>
           /\ FailedIn("charge")
           /\ result.err \in {"KeyError", "TypeError"}

\* The provider rejected the charge and the call raised that very error.
C7_Witness ==
    /\ FailedIn("charge")
    /\ provider_replies = << Raise("StripeError", "fraud_block") >>
    /\ result = Raise("StripeError", "fraud_block")

\* ------------------------------------------------------------------------ C8
\* C8: when the call returns, the value is the Charge the provider returned
\* in this call (the last one created there), unchanged, and by then all
\* five steps have run: the notification went out and the record is logged.
C8_ReturnsProviderCharge ==
    result.k = "return" =>
        /\ pc = "done"
        /\ provider_replies = << result >>
        /\ provider_charges # <<>>
        /\ result.ch = provider_charges[Len(provider_charges)]
        /\ steps = Order
        /\ NewMessages = Notifier_send_confirmation(customer_data).out
        /\ NewLines = << PaidLine(Fmt(customer_data.name), Fmt(payment_data.amount)),
                         StatusLine(result.ch.status) >>

\* A returned Charge that differs from what was asked: pending, amount 700.
C8_Witness ==
    /\ result.k = "return"
    /\ result.ch = Charge(2, "pending", 700)
    /\ payment_data.amount = Num(500)

\* ------------------------------------------------------------------------ C9
\* C9 (state part): once the charge succeeded, an error of the notify step is
\* what the call raises, nothing is logged and no Charge is returned; an
\* error of the log step is what the call raises; in both cases the Charge
\* is still among the provider's.
C9_State ==
    /\ (pc = "done" /\ charge # NoCharge
            /\ Notifier_send_confirmation(customer_data).res.k = "raise") =>
           /\ FailedIn("notify")
           /\ result = Notifier_send_confirmation(customer_data).res
           /\ NewLines = <<>>
           /\ provider_charges # <<>>
           /\ provider_charges[Len(provider_charges)] = charge
    /\ FailedIn("log") =>
           /\ result.err = "OSError"
           /\ provider_charges # <<>>
           /\ provider_charges[Len(provider_charges)] = charge
    /\ (FailedIn("notify") \/ FailedIn("log")) => charge # NoCharge

\* C9 (step part): no step ever removes or alters a Charge at the provider.
C9_Step == IsPrefix(provider_charges, provider_charges')

\* C9: there is no rollback after the charge.
C9_NoRollback == [](C9_State) /\ [][C9_Step]_vars

\* The notify step raised in a call made after one whose log step failed:
\* two Charges at the provider, one notification, an empty log.
C9_Witness ==
    /\ FailedIn("notify")
    /\ result.err = "TypeError"
    /\ Len(provider_charges) = 2
    /\ Len(outbox) = 1
    /\ log_file = <<>>

\* ----------------------------------------------------------------------- C10
\* C10 as claimed: the amount in the first line of the record is the
\* Charge's amount and the status in the second is the Charge's status.
C10_LogsChargeAmount ==
    (pc = "done" /\ steps = << "log" >> /\ result = Ok) =>
        NewLines = << PaidLine(Fmt(customer_data.name), ToString(charge.amount)),
                      StatusLine(charge.status) >>

\* C10 as amended: the status logged is the Charge's, the amount logged is
\* payment_data's amount, whatever the Charge's amount is; for John Doe
\* paying 500 with a succeeded Charge the record is "John Doe paid 500",
\* "Payment status: succeeded".
C10_LogsPaymentAmount ==
    (pc = "done" /\ steps = << "log" >> /\ result = Ok) =>
        /\ NewLines = << PaidLine(Fmt(customer_data.name), Fmt(payment_data.amount)),
                         StatusLine(charge.status) >>
        /\ (customer_data.name = Str("John Doe") /\ payment_data.amount = Num(500)
                /\ charge.status = "succeeded") =>
               NewLines = << "John Doe paid 500", "Payment status: succeeded" >>

\* A Charge of 700 logged for a payment of 500.
C10_Witness ==
    /\ pc = "done" /\ steps = << "log" >> /\ result = Ok
    /\ payment_data.amount = Num(500)
    /\ charge.amount = 700
    /\ NewLines = << "John Doe paid 500", "Payment status: succeeded" >>
====
